---- MODULE Spec2Model ----
(***************************************************************************)
(* A model of the request pipeline of the XRPL.Sale Rust SDK               *)
(* (src/src/client.rs): configuration, the shared auth token behind its    *)
(* reader-writer lock, the verb operations, execute_request with its retry *)
(* loop and exponential backoff, and handle_response.                      *)
(***************************************************************************)
EXTENDS Integers, Sequences, FiniteSets, TLC

(***************************************************************************)
(* Bounds of the model.                                                    *)
(***************************************************************************)
\* The largest max_retries explored besides the small ones: large enough for
\* the retry loop to reach attempt indices past the width of the u32 factor.
LargeRetries == 33
\* The longest retry-after header value, in characters.
MaxHdrLen == 3
\* How many set_auth_token operations one setter task performs.
MaxSets == 2
\* The pages a stream may request.
MaxPages == 3

(***************************************************************************)
(* Program constants.                                                      *)
(***************************************************************************)
\* ClientConfig::default: max_retries: 3.
DefaultMaxRetries == 3
\* The numbers below are kept in 8-bit limbs: a u32 (the backoff factor) is
\* four of them, a u64 (the seconds of a Duration) eight.
LimbBase == 2 ^ 8
U32Limbs == 32 \div 8
U64Limbs == 64 \div 8

(***************************************************************************)
(* Natural numbers of any size, as little-endian sequences of 8-bit limbs  *)
(* without trailing zero limbs (<<>> is 0): TLC's own integers stop at     *)
(* 2^31 - 1, below the factors and delays the code computes.               *)
(***************************************************************************)
RECURSIVE Norm(_)
Norm(x) ==
    IF x = <<>> THEN <<>>
    ELSE IF x[Len(x)] = 0 THEN Norm(SubSeq(x, 1, Len(x) - 1))
    ELSE x

BigOfSmall(n) ==
    IF n = 0 THEN <<>>
    ELSE IF n < LimbBase THEN <<n>>
    ELSE IF n < LimbBase * LimbBase THEN <<n % LimbBase, n \div LimbBase>>
    ELSE Norm(<<n % LimbBase, (n \div LimbBase) % LimbBase,
                (n \div (LimbBase * LimbBase)) % LimbBase,
                n \div (LimbBase * LimbBase * LimbBase)>>)

RECURSIVE BigAddC(_, _, _)
BigAddC(x, y, carry) ==
    IF x = <<>> /\ y = <<>> THEN (IF carry = 0 THEN <<>> ELSE <<carry>>)
    ELSE LET a == IF x = <<>> THEN 0 ELSE Head(x)
             b == IF y = <<>> THEN 0 ELSE Head(y)
             s == a + b + carry
         IN  <<s % LimbBase>> \o
             BigAddC(IF x = <<>> THEN <<>> ELSE Tail(x),
                     IF y = <<>> THEN <<>> ELSE Tail(y),
                     s \div LimbBase)

BigAdd(x, y) == Norm(BigAddC(x, y, 0))

RECURSIVE BigMulLimb(_, _, _)
BigMulLimb(x, k, carry) ==
    IF x = <<>> THEN (IF carry = 0 THEN <<>> ELSE <<carry>>)
    ELSE LET p == Head(x) * k + carry
         IN  <<p % LimbBase>> \o BigMulLimb(Tail(x), k, p \div LimbBase)

RECURSIVE BigMul(_, _)
BigMul(x, y) ==
    IF y = <<>> \/ x = <<>> THEN <<>>
    ELSE BigAdd(Norm(BigMulLimb(x, Head(y), 0)), Norm(<<0>> \o BigMul(x, Tail(y))))

\* 2^n exactly: n \div 8 zero limbs under the limb 2^(n % 8).
BigPow2(n) ==
    [i \in 1..((n \div 8) + 1) |-> IF i <= n \div 8 THEN 0 ELSE 2 ^ (n % 8)]

\* The value kept by a wrapping operation of the given width.
Wrap(x, limbs) == Norm(SubSeq(x, 1, IF Len(x) < limbs THEN Len(x) ELSE limbs))
Fits(x, limbs) == Len(x) <= limbs

(***************************************************************************)
(* Optional values.                                                        *)
(***************************************************************************)
None == [some |-> FALSE]
Some(x) == [some |-> TRUE, val |-> x]

(***************************************************************************)
(* The error values of the pipeline (crate::error::Error, as client.rs     *)
(* constructs them) and the two shapes of a Result.                        *)
(***************************************************************************)
Configuration(m) == [kind |-> "Configuration", message |-> m]
HttpClient(m) == [kind |-> "HttpClient", message |-> m]
Parse(m) == [kind |-> "Parse", message |-> m]
BadRequest(m) == [kind |-> "BadRequest", message |-> m]
Unauthorized(m) == [kind |-> "Unauthorized", message |-> m]
NotFound(m) == [kind |-> "NotFound", message |-> m]
RateLimit(m, ra) == [kind |-> "RateLimit", message |-> m, retry_after |-> ra]
Api(s, m, u) == [kind |-> "Api", status |-> s, message |-> m, url |-> u]

Ok(v) == [ok |-> TRUE, value |-> v]
Err(e) == [ok |-> FALSE, error |-> e]

(***************************************************************************)
(* URLs.  A URL text is a sequence of tokens: the scheme marker            *)
(* "https://", a slash "/", or a name.  A parsed Url is a host and the     *)
(* segments of its path; a path ending in a slash has a last segment "".   *)
(***************************************************************************)
RECURSIVE SplitSegments(_)
\* The segments of a path text that starts with a slash (or is empty: the
\* root path, as Url::parse normalises it).
SplitSegments(toks) ==
    IF toks = <<>> THEN <<"">>
    ELSE IF Len(toks) = 1 THEN <<"">>                       \* the final "/"
    ELSE IF toks[2] = "/" THEN <<"">> \o SplitSegments(Tail(toks))
    ELSE <<toks[2]>> \o (IF Len(toks) = 2 THEN <<>>
                          ELSE SplitSegments(Tail(Tail(toks))))

\* Url::parse of a base text: scheme, host, then a path.
ParseUrl(text) ==
    IF /\ Len(text) >= 2
       /\ text[1] = "https://"
       /\ text[2] \notin {"/", "https://"}
       /\ (Len(text) >= 3 => text[3] = "/")
       /\ \A i \in 3..Len(text) : text[i] # "https://"
    THEN Ok([host |-> text[2], path |-> SplitSegments(SubSeq(text, 3, Len(text)))])
    ELSE Err(Configuration("Invalid base URL"))

RECURSIVE TrimStartMatches(_)
\* str::trim_start_matches('/'): every leading slash is removed.
TrimStartMatches(path) ==
    IF path # <<>> /\ Head(path) = "/" THEN TrimStartMatches(Tail(path)) ELSE path

\* Url::join of a relative path that starts with no slash: the reference
\* replaces the last segment of the base path (RFC 3986, 5.2.3); an empty
\* reference is the base itself.
UrlJoin(base, rel) ==
    IF rel = <<>> THEN base
    ELSE [host |-> base.host,
          path |-> SubSeq(base.path, 1, Len(base.path) - 1)
                   \o SplitSegments(<<"/">> \o rel)]

\* Environment::base_url.
EnvironmentBaseUrl(environment) ==
    IF environment = "Production"
    THEN <<"https://", "api.xrpl.sale", "/", "v1">>
    ELSE <<"https://", "api-testnet.xrpl.sale", "/", "v1">>

\* A client that ignores the override.
BaseUrlOfEnvironment(cfg) == EnvironmentBaseUrl(cfg.environment)

\* Client::base_url: the override when configured, else the environment's.
BaseUrl(cfg) ==
    IF cfg.base_url.some THEN cfg.base_url.val
    ELSE EnvironmentBaseUrl(cfg.environment)

\* Client::build_url.
BuildUrl(cfg, path) ==
    LET base == ParseUrl(BaseUrl(cfg))
    IN  IF ~base.ok THEN base
        ELSE Ok(UrlJoin(base.value, TrimStartMatches(path)))

(***************************************************************************)
(* Response bodies and their decoding.  A body is one of a few texts:      *)
(* the empty text, the JSON documents null, [] and {}, "{project}" (a      *)
(* well-formed project object) and "{oops" (malformed JSON).  The expected *)
(* type T of a call is (), serde_json::Value, Option<Project>, Project or  *)
(* Vec<Project>.                                                           *)
(***************************************************************************)
BodyTexts == {"", "null", "[]", "{}", "{project}", "{oops"}
ResultTypes == {"Unit", "Value", "Option", "Record", "List"}

\* The 'no value' of a type that has one.
NoValue(T) == [type |-> T, doc |-> "null"]

\* A failed decoding, with serde_json's message.
Undecodable(m) == [ok |-> FALSE, why |-> m]

\* serde_json::from_str::<T>(text).
FromStr(text, T) ==
    IF text \in {"", "{oops"} THEN Undecodable("invalid JSON")
    ELSE CASE T = "Value"  -> Ok([type |-> T, doc |-> text])
           [] T = "Unit"   -> IF text = "null" THEN Ok(NoValue(T))
                              ELSE Undecodable("invalid type, expected unit")
           [] T = "Option" -> IF text = "null" THEN Ok(NoValue(T))
                              ELSE IF text = "{project}"
                                   THEN Ok([type |-> T, doc |-> text])
                                   ELSE Undecodable("invalid type, expected struct Project")
           [] T = "Record" -> IF text = "{project}"
                              THEN Ok([type |-> T, doc |-> text])
                              ELSE Undecodable("invalid type, expected struct Project")
           [] T = "List"   -> IF text = "[]" THEN Ok([type |-> T, doc |-> text])
                              ELSE Undecodable("invalid type, expected a sequence")

(***************************************************************************)
(* The retry-after header.  A header value is a sequence of characters;    *)
(* "~" stands for a byte outside visible ASCII.                            *)
(***************************************************************************)
HdrChars == {"0", "1", "2", "+", "-", "s", "~"}
Digits == {"0", "1", "2"}
DigitValue(c) == CASE c = "0" -> 0 [] c = "1" -> 1 [] c = "2" -> 2

RECURSIVE SeqsUpTo(_, _)
SeqsUpTo(S, n) ==
    IF n = 0 THEN {<<>>}
    ELSE LET shorter == SeqsUpTo(S, n - 1)
         IN  shorter \cup {Append(q, c) : q \in shorter, c \in S}

HeaderValues == SeqsUpTo(HdrChars, MaxHdrLen)

\* HeaderValue::to_str: fails on a byte outside visible ASCII.
ToStr(h) == IF \E i \in 1..Len(h) : h[i] = "~" THEN None ELSE Some(h)

RECURSIVE DigitsValue(_, _)
DigitsValue(ds, acc) ==
    IF ds = <<>> THEN acc ELSE DigitsValue(Tail(ds), acc * 10 + DigitValue(Head(ds)))

\* str::parse of an unsigned integer: an optional leading "+", then one or
\* more decimal digits.
ParseUnsigned(str) ==
    LET ds == IF str # <<>> /\ Head(str) = "+" THEN Tail(str) ELSE str
    IN  IF ds # <<>> /\ \A i \in 1..Len(ds) : ds[i] \in Digits
        THEN Some(DigitsValue(ds, 0))
        ELSE None

\* A lookup that never finds the header.
RetryAfterMissing(hdr) == None

\* response.headers().get("retry-after").and_then(to_str).and_then(parse).
RetryAfter(hdr) ==
    IF ~hdr.some THEN None
    ELSE LET str == ToStr(hdr.val)
         IN  IF ~str.some THEN None ELSE ParseUnsigned(str.val)

(***************************************************************************)
(* A received response: its status, the outcome of reading its body        *)
(* (response.text()), its retry-after header if any, and its URL: the      *)
(* final URL of the exchange, which differs from the request's when the    *)
(* HTTP client followed a redirect.                                        *)
(***************************************************************************)
Statuses == {200, 204, 302, 400, 401, 404, 429, 500, 503}
TextOk(t) == [read |-> TRUE, value |-> t]
TextErr(e) == [read |-> FALSE, error |-> e]
IsSuccess(status) == 200 <= status /\ status <= 299

\* A classification without the 404 arm.
HandleResponseNo404(r, T) ==
    IF IsSuccess(r.status)
    THEN IF ~r.text.read THEN Err(HttpClient(r.text.error))
         ELSE LET d == FromStr(IF r.text.value = "" THEN "null" ELSE r.text.value, T)
              IN  IF d.ok THEN d ELSE Err(Parse(d.why))
    ELSE LET text == IF r.text.read THEN r.text.value ELSE ""
         IN  CASE r.status = 400 -> Err(BadRequest(text))
               [] r.status = 401 -> Err(Unauthorized(text))
               [] r.status = 429 -> Err(RateLimit(text, RetryAfter(r.retry_after)))
               [] OTHER -> Err(Api(r.status, text, r.url))

\* A classification that decodes "null" whatever the body.
HandleResponseNull(r, T) ==
    IF IsSuccess(r.status)
    THEN IF ~r.text.read THEN Err(HttpClient(r.text.error))
         ELSE LET d == FromStr("null", T)
              IN  IF d.ok THEN d ELSE Err(Parse(d.why))
    ELSE Err(Api(r.status, IF r.text.read THEN r.text.value ELSE "", r.url))

\* Client::handle_response.
HandleResponse(r, T) ==
    IF IsSuccess(r.status)
    THEN IF ~r.text.read THEN Err(HttpClient(r.text.error))
         ELSE IF r.text.value = ""
              THEN LET d == FromStr("null", T)
                   IN  IF d.ok THEN d ELSE Err(Parse(d.why))
              ELSE LET d == FromStr(r.text.value, T)
                   IN  IF d.ok THEN d ELSE Err(Parse(d.why))
    ELSE LET text == IF r.text.read THEN r.text.value ELSE ""
         IN  CASE r.status = 400 -> Err(BadRequest(text))
               [] r.status = 401 -> Err(Unauthorized(text))
               [] r.status = 404 -> Err(NotFound(text))
               [] r.status = 429 -> Err(RateLimit(text, RetryAfter(r.retry_after)))
               [] OTHER -> Err(Api(r.status, text, r.url))

(***************************************************************************)
(* The backoff delay of execute_request,                                   *)
(*     self.config.retry_delay * 2_u32.pow(attempt as u32),                *)
(* with durations in whole seconds.  A computation either yields a value   *)
(* or panics.                                                              *)
(***************************************************************************)
Computed(v) == [ok |-> TRUE, value |-> v]
Panics(m) == [ok |-> FALSE, why |-> m]

\* 2_u32.pow(n): with overflow checks (a debug build) an overflowing
\* multiplication panics, without them (a release build) it wraps.  (The
\* cast  attempt as u32  changes no attempt index below 2^32.)
PowU32(n, checks) ==
    LET exact == BigPow2(n)
    IN  IF Fits(exact, U32Limbs) THEN Computed(exact)
        ELSE IF checks THEN Panics("attempt to multiply with overflow")
        ELSE Computed(Wrap(exact, U32Limbs))

\* Duration * u32: checked, it panics when the seconds leave a u64.
DurationMul(d, k) ==
    LET p == BigMul(d, k)
    IN  IF Fits(p, U64Limbs) THEN Computed(p)
        ELSE Panics("overflow when multiplying duration by scalar")

BackoffDelay(retry_delay, attempt, checks) ==
    LET factor == PowU32(attempt, checks)
    IN  IF ~factor.ok THEN factor ELSE DurationMul(retry_delay, factor.value)

(***************************************************************************)
(* The state.                                                              *)
(***************************************************************************)
VARIABLES
    config,           \* the ClientConfig the client was built with
    overflow_checks,  \* whether the build checks integer overflow
    auth_token,       \* the Option<String> inside Client::auth_token
    rw_readers,       \* the tasks holding a read guard of the RwLock
    rw_writer,        \* the task holding the write guard, if any
    rw_queue,         \* the tasks waiting for the lock, in arrival order
    calls,            \* per call task: its position and locals
    setters,          \* per set_auth_token task: its position and argument
    last_set,         \* history: the argument of the last completed set
    hr_in,            \* a response and expected type given to handle_response
    hr_out,           \* what handle_response returned for hr_in, if applied
    getters,          \* per get_auth_token task: its position and result
    written,          \* history: the arguments of the completed sets
    handles,          \* per Client or service value: the cell its Arc points to
    cells,            \* per allocated RwLock<Option<String>>: its content
    used,             \* history: per handle, the credentials of its calls
    stream,           \* the state of one stream_all stream and its history
    listing,          \* the last call of featured or trending, if any
    draft,            \* the ClientConfig being assembled, in a builder or not
    built,            \* how the client was constructed and the result, if it was
    twin,             \* whether c2 is c1 again on a client with debug flipped
    script            \* with a twin: the outcome of the k-th send of either call

vars == <<config, overflow_checks, auth_token, rw_readers, rw_writer, rw_queue,
          calls, setters, last_set, hr_in, hr_out, getters, written,
          handles, cells, used,
          stream, listing,
          draft, built,
          twin, script>>

Calls == {"c1", "c2"}
Setters == {"s1", "s2"}
Getters == {"g1"}
Verbs == {"GET", "POST", "PUT", "PATCH", "DELETE"}
BodyVerbs == {"POST", "PUT", "PATCH"}
Tokens == {"t1", "t2"}
TransportErrors == {"connection refused", "operation timed out"}

\* Duration::from_secs(1), the default retry_delay, and a delay of 2^63 s.
OneSecond == BigOfSmall(1)
HugeDelay == BigPow2(63)
RetryDelays == {OneSecond, HugeDelay}
RetryChoices == (0..DefaultMaxRetries) \cup {LargeRetries}

ProjectsPath == <<"/", "projects">>
RedirectedUrl == [host |-> "cdn.xrpl.sale", path |-> <<"moved">>]
NoUrl == [host |-> "", path |-> <<>>]
Hdr120 == <<"1", "2", "0">>

\* The request headers that carry a credential.
Bearer(t) == [name |-> "Authorization", value |-> <<"Bearer", t>>]
ApiKey(k) == [name |-> "X-API-Key", value |-> <<k>>]

IdleCall ==
    [pc |-> "idle", verb |-> "GET", T |-> "Value", url |-> NoUrl,
     clonable |-> TRUE, headers |-> {}, attempt |-> 0, last_error |-> None,
     delay |-> <<>>, result |-> None, panic |-> "",
     \* history of the call, for the properties
     sends |-> 0, fails |-> 0, sleeps |-> 0, inflight |-> 0,
     got |-> None, last_fail |-> "", sent |-> {}, logs |-> 0,
     start_set |-> None, undisturbed |-> TRUE, token_read |-> None,
     path |-> <<>>]

IdleSetter == [pc |-> "idle", arg |-> None, n |-> 0]

IdleGetter == [pc |-> "idle", result |-> None]

\* The values that hold a Client: the one built, a clone of it, and a
\* ProjectsService; 0 marks a value not created yet.
Handles == {"client", "clone", "projects"}
ClientHandles == {"client", "clone"}
CellIds == 1..Cardinality(Handles)

(***************************************************************************)
(* Construction: ClientBuilder and Client::with_config.                    *)
(***************************************************************************)
\* ClientConfig::default().
DefaultConfig ==
    [api_key |-> "", environment |-> "Production", base_url |-> None,
     max_retries |-> DefaultMaxRetries, retry_delay |-> OneSecond,
     debug |-> FALSE]

\* Client::with_config: the client holding cfg, unless the HTTP client
\* cannot be built.  Nothing is sent.
WithConfig(cfg, http_ok) ==
    IF http_ok THEN Ok(cfg) ELSE Err(HttpClient("builder error"))

\* A build without the check of the key.
BuildUnchecked(cfg, http_ok) == WithConfig(cfg, http_ok)

\* ClientBuilder::build.
Build(cfg, http_ok) ==
    IF cfg.api_key = ""
    THEN Err(Configuration("API key is required"))
    ELSE WithConfig(cfg, http_ok)

\* A setter of the builder, or an assignment to a public field of a
\* ClientConfig, before the client is constructed.
Configure(field, value) ==
    /\ ~built.some
    /\ draft' = [draft EXCEPT ![field] = value]
    /\ UNCHANGED <<config, overflow_checks, auth_token, rw_readers, rw_writer,
                   rw_queue, calls, setters, last_set, hr_in, hr_out, getters,
                   written, handles, cells, used, stream, listing, built,
                   twin, script>>

\* builder.build() or Client::with_config(draft): on success the client
\* holds the configuration.
Construct(via, http_ok) ==
    /\ ~built.some
    /\ LET result == IF via = "build" THEN Build(draft, http_ok)
                     ELSE WithConfig(draft, http_ok)
       IN  /\ built' = Some([via |-> via, result |-> result])
           /\ config' = IF result.ok THEN result.value ELSE config
    /\ UNCHANGED <<overflow_checks, auth_token, rw_readers, rw_writer,
                   rw_queue, calls, setters, last_set, hr_in, hr_out, getters,
                   written, handles, cells, used, stream, listing, draft,
                   twin, script>>

\* The client exists.
ClientBuilt == built.some /\ built.val.result.ok

(***************************************************************************)
(* The tokio RwLock of the auth token: first come, first served.  A task   *)
(* joins the queue and is granted the lock when it is at the head and the  *)
(* lock admits its mode.                                                   *)
(***************************************************************************)
Waiting(t, mode) == [task |-> t, mode |-> mode]
AtHead(t) == rw_queue # <<>> /\ Head(rw_queue).task = t

\* A lock that grants the write guard while read guards are out.
WriteAdmittedAmongReaders == rw_writer = {}

\* read() is granted when no write guard is out; write() when no guard is.
ReadAdmitted == rw_writer = {}
WriteAdmitted == rw_writer = {} /\ rw_readers = {}

\* What a load of the cell can yield.  The cell is an Option<String> of
\* several words, assigned in place under the write guard: a load made
\* while a write guard is out races with the store and may yield the old
\* value, the new one, or a mix of the two.
Mixed == Some("mixed")
Observed ==
    IF rw_writer = {}
    THEN {auth_token}
    ELSE {auth_token, Mixed} \cup {setters[s].arg : s \in rw_writer}

(***************************************************************************)
(* A call: one of Client::get/post/put/patch/delete, then execute_request. *)
(***************************************************************************)
\* The configuration of the client a call runs on: config, or for c2 as a
\* twin the same configuration with the debug flag flipped.
ConfigOf(c) ==
    IF twin /\ c = "c2" THEN [config EXCEPT !.debug = ~config.debug] ELSE config

\* The verb operation up to the first await of execute_request: build the
\* URL (an error returns at once), build the request (a body that fails to
\* serialize leaves a request that cannot be cloned), and ask for the read
\* lock of get_auth_token.
Start(c, verb, T, path, clonable) ==
    /\ calls[c].pc = "idle"
    /\ clonable \/ verb \in BodyVerbs
    /\ LET u == BuildUrl(ConfigOf(c), path)
       IN  IF ~u.ok
           THEN /\ calls' = [calls EXCEPT ![c] =
                        [@ EXCEPT !.pc = "done", !.verb = verb, !.T = T,
                                  !.path = path, !.result = Some(u)]]
                /\ UNCHANGED rw_queue
           ELSE /\ calls' = [calls EXCEPT ![c] =
                        [@ EXCEPT !.pc = "auth_wait", !.verb = verb, !.T = T,
                                  !.url = u.value, !.clonable = clonable,
                                  !.path = path,
                                  !.start_set = last_set,
                                  !.undisturbed =
                                      \A s \in Setters : setters[s].pc = "idle"]]
                /\ rw_queue' = Append(rw_queue, Waiting(c, "read"))
    /\ UNCHANGED <<config, overflow_checks, auth_token, rw_readers, rw_writer,
                   setters, last_set, hr_in, hr_out, getters, written,
                   handles, cells, used, stream, listing, draft, built,
                   twin, script>>

\* self.auth_token.read().await: the read guard is granted.
GrantRead(c) ==
    /\ calls[c].pc = "auth_wait"
    /\ AtHead(c)
    /\ ReadAdmitted
    /\ rw_queue' = Tail(rw_queue)
    /\ rw_readers' = rw_readers \cup {c}
    /\ calls' = [calls EXCEPT ![c].pc = "auth_read"]
    /\ UNCHANGED <<config, overflow_checks, auth_token, rw_writer, setters,
                   last_set, hr_in, hr_out, getters, written,
                   handles, cells, used, stream, listing, draft, built,
                   twin, script>>

\* The credential attached by execute_request for the token just read.
AuthHeaders(token, cfg) ==
    IF token.some THEN {Bearer(token.val)} ELSE {ApiKey(cfg.api_key)}

\* A call that keeps its read guard for the rest of the call.
ReadTokenHolding(c) ==
    /\ calls[c].pc = "auth_read"
    /\ calls' = [calls EXCEPT ![c] =
             [@ EXCEPT !.pc = "attempt", !.headers = AuthHeaders(auth_token, config),
                       !.attempt = 0, !.last_error = None,
                       !.token_read = Some(auth_token)]]
    /\ UNCHANGED <<config, overflow_checks, auth_token, rw_readers, rw_writer,
                   rw_queue, setters, last_set, hr_in, hr_out, getters, written,
                   handles, cells, used, stream, listing, draft, built, twin,
                   script>>

\* .clone() of the token under the guard, the guard dropped, and the
\* credential attached; last_error = None before the loop.
ReadToken(c) ==
    /\ calls[c].pc = "auth_read"
    /\ rw_readers' = rw_readers \ {c}
    /\ \E token \in Observed :
         calls' = [calls EXCEPT ![c] =
             [@ EXCEPT !.pc = "attempt", !.headers = AuthHeaders(token, ConfigOf(c)),
                       !.attempt = 0, !.last_error = None,
                       !.token_read = Some(token)]]
    /\ UNCHANGED <<config, overflow_checks, auth_token, rw_writer, rw_queue,
                   setters, last_set, hr_in, hr_out, getters, written,
                   handles, cells, used, stream, listing, draft, built,
                   twin, script>>

\* The loop over 0..max_retries, without its last iteration.
InLoopExclusive(attempt, cfg) == attempt < cfg.max_retries

\* Whether the loop  for attempt in 0..=max_retries  runs its body.
InLoop(attempt, cfg) == attempt <= cfg.max_retries

\* A loop exit that forgets the error it kept.
AfterLoopUnknown(last_error) == Err(HttpClient("Unknown error"))

\* The value returned after the loop.
AfterLoop(last_error) ==
    Err(IF last_error.some THEN last_error.val ELSE HttpClient("Unknown error"))

\* A clone that takes the credential from the token of the moment.
TryCloneFresh(headers) == AuthHeaders(auth_token, config)

\* request.try_clone(): the clone carries the headers of the request.
TryClone(headers) == headers

\* The head of the loop: leave it, or try_clone the request (None returns
\* the error at once) and send the clone.
LoopHead(c) ==
    /\ calls[c].pc = "attempt"
    /\ calls' = [calls EXCEPT ![c] =
          IF ~InLoop(@.attempt, ConfigOf(c))
          THEN [@ EXCEPT !.pc = "done", !.result = Some(AfterLoop(calls[c].last_error))]
          ELSE IF ~@.clonable
          THEN [@ EXCEPT !.pc = "done",
                         !.result = Some(Err(HttpClient("Failed to clone request")))]
          ELSE [@ EXCEPT !.pc = "sending", !.sends = @ + 1, !.inflight = @ + 1,
                         !.sent = @ \cup {TryClone(calls[c].headers)}]]
    /\ UNCHANGED <<config, overflow_checks, auth_token, rw_readers, rw_writer,
                   rw_queue, setters, last_set, hr_in, hr_out, getters, written,
                   handles, cells, used, stream, listing, draft, built,
                   twin, script>>

\* A backoff after the last attempt as well.
RetriesLeftInclusive(attempt, cfg) == attempt <= cfg.max_retries

\* Whether a failed attempt is followed by a backoff delay.
RetriesLeft(attempt, cfg) == attempt < cfg.max_retries

\* The lines log::debug! emits for n events: none unless config.debug.
DebugLines(cfg, n) == IF cfg.debug THEN n ELSE 0

\* req.send().await returned Err(e): remember it; when retries are left,
\* compute the delay (which may panic), trace it and go to sleep.
SendFail(c, e) ==
    /\ calls[c].pc = "sending"
    /\ LET st == [calls[c] EXCEPT !.last_error = Some(HttpClient(e)),
                                  !.inflight = @ - 1, !.fails = @ + 1,
                                  !.last_fail = e]
           d == BackoffDelay(ConfigOf(c).retry_delay, st.attempt, overflow_checks)
       IN  calls' = [calls EXCEPT ![c] =
              IF RetriesLeft(st.attempt, ConfigOf(c))
              THEN IF d.ok
                   THEN [st EXCEPT !.pc = "backoff", !.delay = d.value,
                                   !.logs = @ + DebugLines(ConfigOf(c), 1)]
                   ELSE [st EXCEPT !.pc = "panicked", !.panic = d.why]
              ELSE [st EXCEPT !.pc = "attempt", !.attempt = @ + 1]]
    /\ UNCHANGED <<config, overflow_checks, auth_token, rw_readers, rw_writer,
                   rw_queue, setters, last_set, hr_in, hr_out, getters, written,
                   handles, cells, used, stream, listing, draft, built,
                   twin, script>>

\* tokio::time::sleep(delay).await has elapsed: the next iteration.
Wake(c) ==
    /\ calls[c].pc = "backoff"
    /\ calls' = [calls EXCEPT ![c] =
             [@ EXCEPT !.pc = "attempt", !.attempt = @ + 1, !.sleeps = @ + 1]]
    /\ UNCHANGED <<config, overflow_checks, auth_token, rw_readers, rw_writer,
                   rw_queue, setters, last_set, hr_in, hr_out, getters, written,
                   handles, cells, used, stream, listing, draft, built,
                   twin, script>>

\* A pipeline that sleeps and tries again on a 429.
SendResponseRetrying(c, r) ==
    /\ calls[c].pc = "sending"
    /\ calls' = [calls EXCEPT ![c] =
             IF r.status = 429 /\ calls[c].attempt < ConfigOf(c).max_retries
             THEN [@ EXCEPT !.pc = "backoff", !.inflight = @ - 1, !.got = Some(r)]
             ELSE [@ EXCEPT !.pc = "done", !.inflight = @ - 1, !.got = Some(r),
                            !.result = Some(HandleResponse(r, calls[c].T))]]
    /\ UNCHANGED <<config, overflow_checks, auth_token, rw_readers, rw_writer,
                   rw_queue, setters, last_set, hr_in, hr_out, getters, written,
                   handles, cells, used, stream, listing, draft, built,
                   twin, script>>

\* Whether handle_response traces a body it could not decode.
ParseFailure(r, T) ==
    /\ IsSuccess(r.status)
    /\ r.text.read
    /\ r.text.value # ""
    /\ ~FromStr(r.text.value, T).ok

\* req.send().await returned Ok(response): trace it and return
\* handle_response of it.  (The trace reads the method and URL of the
\* response's request, taken here to be present.)
SendResponse(c, r) ==
    /\ calls[c].pc = "sending"
    /\ calls' = [calls EXCEPT ![c] =
             [@ EXCEPT !.pc = "done", !.inflight = @ - 1, !.got = Some(r),
                       !.logs = @ + DebugLines(ConfigOf(c),
                                    IF ParseFailure(r, calls[c].T) THEN 2 ELSE 1),
                       !.result = Some(HandleResponse(r, calls[c].T))]]
    /\ UNCHANGED <<config, overflow_checks, auth_token, rw_readers, rw_writer,
                   rw_queue, setters, last_set, hr_in, hr_out, getters, written,
                   handles, cells, used, stream, listing, draft, built,
                   twin, script>>

\* req.send().await returned Ok(response) and response.request() is None:
\* the trace, made only with debug on, unwraps it.
SendResponseNoRequest(c, r) ==
    IF ConfigOf(c).debug
    THEN /\ calls[c].pc = "sending"
         /\ calls' = [calls EXCEPT ![c] =
                  [@ EXCEPT !.pc = "panicked", !.inflight = @ - 1,
                            !.got = Some(r),
                            !.panic = "called Option::unwrap() on a None value"]]
         /\ UNCHANGED <<config, overflow_checks, auth_token, rw_readers,
                        rw_writer, rw_queue, setters, last_set, hr_in, hr_out,
                        getters, written, handles, cells, used, stream,
                        listing, draft, built, twin, script>>
    ELSE SendResponse(c, r)

(***************************************************************************)
(* Client::set_auth_token.                                                 *)
(***************************************************************************)
\* self.auth_token.write().await is reached: the task asks for the lock.
\* A call that has not read the token yet is no longer undisturbed.
SetRequest(s, v) ==
    /\ setters[s].pc = "idle"
    /\ setters[s].n < MaxSets
    /\ setters' = [setters EXCEPT ![s] = [@ EXCEPT !.pc = "write_wait", !.arg = v]]
    /\ rw_queue' = Append(rw_queue, Waiting(s, "write"))
    /\ calls' = [c \in Calls |->
                   IF calls[c].pc \in {"auth_wait", "auth_read"}
                   THEN [calls[c] EXCEPT !.undisturbed = FALSE]
                   ELSE calls[c]]
    /\ UNCHANGED <<config, overflow_checks, auth_token, rw_readers, rw_writer,
                   last_set, hr_in, hr_out, getters, written,
                   handles, cells, used, stream, listing, draft, built,
                   twin, script>>

\* The write guard is granted: no reader and no writer holds the lock.
GrantWrite(s) ==
    /\ setters[s].pc = "write_wait"
    /\ AtHead(s)
    /\ WriteAdmitted
    /\ rw_queue' = Tail(rw_queue)
    /\ rw_writer' = {s}
    /\ setters' = [setters EXCEPT ![s].pc = "writing"]
    /\ UNCHANGED <<config, overflow_checks, auth_token, rw_readers, calls,
                   last_set, hr_in, hr_out, getters, written,
                   handles, cells, used, stream, listing, draft, built,
                   twin, script>>

\* A setter that keeps the old token when asked to clear it.
StoredUnlessNone(arg) == IF arg.some THEN arg ELSE auth_token

\* The value stored by  *auth_token = token.map(|t| t.into()).
Stored(arg) == arg

\* The assignment under the guard, and the guard dropped.
WriteToken(s) ==
    /\ setters[s].pc = "writing"
    /\ auth_token' = Stored(setters[s].arg)
    /\ last_set' = setters[s].arg
    /\ written' = written \cup {Stored(setters[s].arg)}
    /\ rw_writer' = rw_writer \ {s}
    /\ setters' = [setters EXCEPT ![s] = [@ EXCEPT !.pc = "idle", !.n = @ + 1]]
    /\ UNCHANGED <<config, overflow_checks, rw_readers, rw_queue, calls,
                   hr_in, hr_out, getters, handles, cells, used,
                   stream, listing, draft, built, twin, script>>

(***************************************************************************)
(* Client::get_auth_token called by the application.                       *)
(***************************************************************************)
\* self.auth_token.read().await is reached: the task asks for the lock.
GetRequest(g) ==
    /\ getters[g].pc = "idle"
    /\ getters' = [getters EXCEPT ![g].pc = "read_wait"]
    /\ rw_queue' = Append(rw_queue, Waiting(g, "read"))
    /\ UNCHANGED <<config, overflow_checks, auth_token, rw_readers, rw_writer,
                   calls, setters, last_set, hr_in, hr_out, written,
                   handles, cells, used, stream, listing, draft, built,
                   twin, script>>

\* The read guard is granted.
GrantGet(g) ==
    /\ getters[g].pc = "read_wait"
    /\ AtHead(g)
    /\ ReadAdmitted
    /\ rw_queue' = Tail(rw_queue)
    /\ rw_readers' = rw_readers \cup {g}
    /\ getters' = [getters EXCEPT ![g].pc = "reading"]
    /\ UNCHANGED <<config, overflow_checks, auth_token, rw_writer, calls,
                   setters, last_set, hr_in, hr_out, written,
                   handles, cells, used, stream, listing, draft, built,
                   twin, script>>

\* .clone() under the guard, the guard dropped, the clone returned.
GetToken(g) ==
    /\ getters[g].pc = "reading"
    /\ rw_readers' = rw_readers \ {g}
    /\ \E token \in Observed :
         getters' = [getters EXCEPT ![g] = [pc |-> "done", result |-> Some(token)]]
    /\ UNCHANGED <<config, overflow_checks, auth_token, rw_writer, rw_queue,
                   calls, setters, last_set, hr_in, hr_out, written,
                   handles, cells, used, stream, listing, draft, built,
                   twin, script>>

(***************************************************************************)
(* Clones of the client and service handles.  Each operation on the token  *)
(* is taken as one step, the lock making it so.                            *)
(***************************************************************************)
\* A clone that allocates a cell of its own.
ArcCloneDeep(cell) == cell + 1

\* Arc::clone of the auth_token field: the same allocation.
ArcClone(cell) == cell

\* #[derive(Clone)] on Client, and  ProjectsService::new(self.clone()).
NewHandle(from, h) ==
    /\ handles[from] # 0
    /\ handles[h] = 0
    /\ handles' = [handles EXCEPT ![h] = ArcClone(handles[from])]
    /\ UNCHANGED <<config, overflow_checks, auth_token, rw_readers, rw_writer,
                   rw_queue, calls, setters, last_set, hr_in, hr_out, getters,
                   written, cells, used, stream, listing, draft, built,
                   twin, script>>

\* set_auth_token(v) on a client value.
SetThrough(h, v) ==
    /\ handles[h] # 0
    /\ cells' = [cells EXCEPT ![handles[h]] = Stored(v)]
    /\ last_set' = v
    /\ written' = written \cup {Stored(v)}
    /\ UNCHANGED <<config, overflow_checks, auth_token, rw_readers, rw_writer,
                   rw_queue, calls, setters, hr_in, hr_out, getters, handles,
                   used, stream, listing, draft, built, twin, script>>

\* A call issued through a handle: the credential execute_request attaches,
\* remembered with the argument of the last set before the call.
CallThrough(h) ==
    /\ handles[h] # 0
    /\ used' = [used EXCEPT ![h] = @ \cup
                  {[headers |-> AuthHeaders(cells[handles[h]], config),
                    after |-> last_set]}]
    /\ UNCHANGED <<config, overflow_checks, auth_token, rw_readers, rw_writer,
                   rw_queue, calls, setters, last_set, hr_in, hr_out, getters,
                   written, handles, cells, stream, listing, draft, built,
                   twin, script>>

(***************************************************************************)
(* ProjectsService: stream_all, featured and trending.  A listing call     *)
(* returns what execute_request returns: an error, or a decoded            *)
(* PaginatedResponse whose data and pagination may each be absent.         *)
(***************************************************************************)
DataChoices == {None, Some(<<>>), Some(<<"a", "b", "c">>)}
PaginationChoices ==
    {None} \cup {Some([page |-> p, total_pages |-> t]) : p, t \in 1..MaxPages}
ListErrors == {HttpClient("connection refused"), NotFound("no such resource")}
ListResults ==
    {Ok([data |-> d, pagination |-> p]) : d \in DataChoices, p \in PaginationChoices}
    \cup {Err(e) : e \in ListErrors}

\* Option::unwrap_or_default on the data of a response.
UnwrapOrDefault(data) == IF data.some THEN data.val ELSE <<>>

\* A test against the page the stream asked for.
HasMoreByCurrentPage(pagination) ==
    IF pagination.some
    THEN stream.page < pagination.val.total_pages
    ELSE FALSE

\* A test that goes on after the last page.
HasMoreInclusive(pagination) ==
    IF pagination.some
    THEN pagination.val.page <= pagination.val.total_pages
    ELSE FALSE

\* pagination.as_ref().map(|p| p.page < p.total_pages).unwrap_or(false)
HasMore(pagination) ==
    IF pagination.some
    THEN pagination.val.page < pagination.val.total_pages
    ELSE FALSE

\* An inner stream that loses the first project of a page.
IterOkTail(projects) == [i \in 1..(Len(projects) - 1) |-> Ok(projects[i + 1])]

\* stream::iter(projects.into_iter().map(Ok))
IterOk(projects) == [i \in 1..Len(projects) |-> Ok(projects[i])]

\* u32::to_string: the decimal digits of n.
DecimalDigits == <<"0", "1", "2", "3", "4", "5", "6", "7", "8", "9">>
RECURSIVE DecimalString(_)
DecimalString(n) ==
    IF n < 10 THEN <<DecimalDigits[n + 1]>>
    ELSE DecimalString(n \div 10) \o <<DecimalDigits[(n % 10) + 1]>>

\* The limit stream_all gives to list.
StreamLimit == 50

\* The query list builds from the arguments stream_all gives it: status
\* if there is one, page and limit as decimal text, no sort_by and no
\* sort_order.
ListQuery(status, page, limit) ==
    [status |-> status, page |-> Some(DecimalString(page)),
     limit |-> Some(DecimalString(limit)), sort_by |-> None,
     sort_order |-> None]

\* stream::unfold((1u32, false), ..): the status filter, the state
\* (page, done), the items of the inner stream not yet yielded, and the
\* history of the stream.
NewStream(status) ==
    [pc |-> "ready", status |-> status, page |-> 1, done |-> FALSE,
     buffer |-> <<>>, requested |-> <<>>, queries |-> <<>>,
     fetched |-> <<>>, yielded |-> <<>>]

\* stream_all(status): the stream is made; nothing is requested yet.
StreamAll(status) ==
    /\ stream.pc = "unmade"
    /\ stream' = NewStream(status)
    /\ UNCHANGED <<config, overflow_checks, auth_token, rw_readers, rw_writer,
                   rw_queue, calls, setters, last_set, hr_in, hr_out, getters,
                   written, handles, cells, used, listing, draft, built, twin,
                   script>>

\* The consumer polls and the inner stream is exhausted: the closure of
\* unfold runs up to its await.  done ends the stream; otherwise page is
\* requested from list.
PollNext ==
    /\ stream.pc = "ready"
    /\ stream.buffer = <<>>
    /\ stream.done \/ stream.page <= MaxPages
    /\ stream' = IF stream.done
                 THEN [stream EXCEPT !.pc = "ended"]
                 ELSE [stream EXCEPT !.pc = "listing",
                                     !.requested = Append(@, stream.page),
                                     !.queries =
                                        Append(@, ListQuery(stream.status,
                                                            stream.page,
                                                            StreamLimit))]
    /\ UNCHANGED <<config, overflow_checks, auth_token, rw_readers, rw_writer,
                   rw_queue, calls, setters, last_set, hr_in, hr_out, getters,
                   written, handles, cells, used, listing, draft, built,
                   twin, script>>

\* A closure that asks for the next page after an error.
ListReturnsContinuing(result) ==
    /\ stream.pc = "listing"
    /\ stream' = [stream EXCEPT
                     !.pc = "ready", !.fetched = Append(@, result),
                     !.page = stream.page + 1,
                     !.done = IF result.ok THEN ~HasMore(result.value.pagination)
                              ELSE FALSE,
                     !.buffer = IF result.ok
                                THEN IterOk(UnwrapOrDefault(result.value.data))
                                ELSE <<result>>]
    /\ UNCHANGED <<config, overflow_checks, auth_token, rw_readers, rw_writer,
                   rw_queue, calls, setters, last_set, hr_in, hr_out, getters,
                   written, handles, cells, used, listing, draft, built,
                   twin, script>>

\* list returned: the rest of the closure.  (page stays far below 2^32.)
ListReturns(result) ==
    /\ stream.pc = "listing"
    /\ stream' = IF result.ok
                 THEN [stream EXCEPT
                          !.pc = "ready", !.fetched = Append(@, result),
                          !.page = stream.page + 1,
                          !.done = ~HasMore(result.value.pagination),
                          !.buffer = IterOk(UnwrapOrDefault(result.value.data))]
                 ELSE [stream EXCEPT
                          !.pc = "ready", !.fetched = Append(@, result),
                          !.done = TRUE,
                          !.buffer = <<Err(result.error)>>]
    /\ UNCHANGED <<config, overflow_checks, auth_token, rw_readers, rw_writer,
                   rw_queue, calls, setters, last_set, hr_in, hr_out, getters,
                   written, handles, cells, used, listing, draft, built,
                   twin, script>>

\* flat_map: the consumer polls and the inner stream has an item.
YieldItem ==
    /\ stream.pc = "ready"
    /\ stream.buffer # <<>>
    /\ stream' = [stream EXCEPT !.yielded = Append(@, Head(stream.buffer)),
                                !.buffer = Tail(@)]
    /\ UNCHANGED <<config, overflow_checks, auth_token, rw_readers, rw_writer,
                   rw_queue, calls, setters, last_set, hr_in, hr_out, getters,
                   written, handles, cells, used, listing, draft, built,
                   twin, script>>

\* A featured that insists on a data field.
FeaturedStrict(result) ==
    IF result.ok
    THEN IF result.value.data.some THEN Ok(result.value.data.val)
         ELSE Err(Parse("missing field data"))
    ELSE result

\* featured: the error of the call, or data.unwrap_or_default().
Featured(result) ==
    IF result.ok THEN Ok(UnwrapOrDefault(result.value.data)) ELSE result

\* trending: the same.
Trending(result) ==
    IF result.ok THEN Ok(UnwrapOrDefault(result.value.data)) ELSE result

\* The query of featured and of trending: the parameters that were given.
ListingQuery(period, limit) ==
    {<<"period", p.val>> : p \in {x \in {period} : x.some}}
    \cup {<<"limit", DecimalString(l.val)>> : l \in {x \in {limit} : x.some}}

\* One call of featured (which has no period) or trending whose request
\* returned result.
CallListing(op, period, limit, result) ==
    /\ op = "featured" => ~period.some
    /\ listing' = Some([op |-> op, query |-> ListingQuery(period, limit),
                        result |-> result,
                        returned |-> IF op = "featured" THEN Featured(result)
                                     ELSE Trending(result)])
    /\ UNCHANGED <<config, overflow_checks, auth_token, rw_readers, rw_writer,
                   rw_queue, calls, setters, last_set, hr_in, hr_out, getters,
                   written, handles, cells, used, stream, draft, built,
                   twin, script>>

(***************************************************************************)
(* handle_response on its own: applied to one response and expected type.  *)
(***************************************************************************)
Classify ==
    /\ ~hr_out.some
    /\ hr_out' = Some(HandleResponse(hr_in.response, hr_in.T))
    /\ UNCHANGED <<config, overflow_checks, auth_token, rw_readers, rw_writer,
                   rw_queue, calls, setters, last_set, hr_in, getters, written,
                   handles, cells, used, stream, listing, draft, built,
                   twin, script>>

(***************************************************************************)
(* The responses a server may give.                                        *)
(***************************************************************************)
Response(s, t, h, u) == [status |-> s, text |-> t, retry_after |-> h, url |-> u]

Texts == {TextOk(b) : b \in BodyTexts} \cup {TextErr("error decoding response body")}

\* Every response of the model to a request for url u: every header value
\* on a 429, none or "120" on the others.
AllResponses(u) ==
    {Response(s, t, h, x) :
        s \in Statuses \ {429}, t \in Texts, h \in {None, Some(Hdr120)},
        x \in {u, RedirectedUrl}}
    \cup
    {Response(429, t, h, x) :
        t \in {TextOk("rate limited"), TextErr("error decoding response body")},
        h \in {None} \cup {Some(v) : v \in HeaderValues}, x \in {u, RedirectedUrl}}

\* The responses drawn in the runs of the whole pipeline: every status with
\* an empty, a well-formed, a malformed and an unreadable body; a 500
\* reached through a redirect; a 429 with and without retry-after: 120.
PipelineResponses(u) ==
    {Response(s, t, None, u) :
        s \in Statuses \ {429},
        t \in {TextOk(""), TextOk("{project}"), TextOk("{oops"),
                TextErr("error decoding response body")}}
    \cup {Response(500, TextOk("{oops"), None, RedirectedUrl)}
    \cup {Response(429, TextOk("rate limited"), h, u) : h \in {None, Some(Hdr120)}}

(***************************************************************************)
(* Initial states.                                                         *)
(***************************************************************************)
Configs(retries, delays, debugs) ==
    [api_key : {"key"}, environment : {"Production"}, base_url : {None},
     max_retries : retries, retry_delay : delays, debug : debugs]

ProjectsUrl == BuildUrl(CHOOSE cfg \in Configs({0}, {OneSecond}, {FALSE}) : TRUE,
                        ProjectsPath).value

\* The client was built from config.
Constructed ==
    /\ twin = FALSE
    /\ script = <<>>
    /\ draft = config
    /\ built = Some([via |-> "build", result |-> Build(config, TRUE)])

InitClient ==
    /\ auth_token = None
    /\ rw_readers = {}
    /\ rw_writer = {}
    /\ rw_queue = <<>>
    /\ calls = [c \in Calls |-> IdleCall]
    /\ setters = [s \in Setters |-> IdleSetter]
    /\ last_set = None
    /\ getters = [g \in Getters |-> IdleGetter]
    /\ written = {}
    /\ handles = [h \in Handles |-> IF h = "client" THEN 1 ELSE 0]
    /\ cells = [i \in CellIds |-> None]
    /\ used = [h \in Handles |-> {}]
    /\ stream = [NewStream(None) EXCEPT !.pc = "unmade"]
    /\ listing = None

NoInput ==
    [response |-> Response(200, TextOk(""), None, NoUrl), T |-> "Value",
     request_url |-> NoUrl]

\* One call through the whole pipeline, for every retry policy.
Init ==
    /\ config \in Configs(RetryChoices, RetryDelays, BOOLEAN)
    /\ Constructed
    /\ overflow_checks \in BOOLEAN
    /\ InitClient
    /\ hr_in = NoInput
    /\ hr_out = None

Next ==
    \/ \E verb \in Verbs, T \in {"Value", "Record"}, clonable \in BOOLEAN :
           Start("c1", verb, T, ProjectsPath, clonable)
    \/ GrantRead("c1")
    \/ ReadToken("c1")
    \/ LoopHead("c1")
    \/ \E e \in TransportErrors : SendFail("c1", e)
    \/ Wake("c1")
    \/ \E r \in PipelineResponses(calls["c1"].url) : SendResponse("c1", r)

Spec == Init /\ [][Next]_vars

\* Concurrent calls and token updates on one client.
InitAuth ==
    /\ config \in Configs({0, 1}, {OneSecond}, {FALSE})
    /\ Constructed
    /\ overflow_checks = FALSE
    /\ InitClient
    /\ hr_in = NoInput
    /\ hr_out = None

NextAuth ==
    \/ \E c \in Calls : Start(c, "GET", "Value", ProjectsPath, TRUE)
    \/ \E c \in Calls : GrantRead(c)
    \/ \E c \in Calls : ReadToken(c)
    \/ \E c \in Calls : LoopHead(c)
    \/ \E c \in Calls : SendFail(c, "connection refused")
    \/ \E c \in Calls : Wake(c)
    \/ \E c \in Calls :
           SendResponse(c, Response(200, TextOk("{project}"), None, calls[c].url))
    \/ \E v \in {None} \cup {Some(t) : t \in Tokens} : SetRequest("s1", v)
    \/ GrantWrite("s1")
    \/ WriteToken("s1")

SpecAuth == InitAuth /\ [][NextAuth]_vars

\* The steps of the lock: a guard is granted to the task at the head of
\* the queue, or a task holding a guard does its load or store and drops
\* it.  None of them awaits anything but the lock, and the runtime polls
\* every task that can run: each such step, once possible, is taken.  The
\* transport is under no such obligation: a send may never end.
LockStep(t) ==
    IF t \in Calls THEN GrantRead(t) \/ ReadToken(t)
    ELSE GrantWrite(t) \/ WriteToken(t)

\* Two calls that retry once, among sets of one token.
InitHold ==
    /\ config \in Configs({1}, {OneSecond}, {FALSE})
    /\ Constructed
    /\ overflow_checks = FALSE
    /\ InitClient
    /\ hr_in = NoInput
    /\ hr_out = None

NextHold ==
    \/ \E c \in Calls : Start(c, "GET", "Value", ProjectsPath, TRUE)
    \/ \E c \in Calls : GrantRead(c)
    \/ \E c \in Calls : ReadToken(c)
    \/ \E c \in Calls : LoopHead(c)
    \/ \E c \in Calls : SendFail(c, "connection refused")
    \/ \E c \in Calls : Wake(c)
    \/ \E c \in Calls :
           SendResponse(c, Response(200, TextOk("{project}"), None, calls[c].url))
    \/ SetRequest("s1", Some("t1"))
    \/ GrantWrite("s1")
    \/ WriteToken("s1")

FairSpecHold ==
    /\ InitHold
    /\ [][NextHold]_vars
    /\ \A t \in Calls \cup {"s1"} : WF_vars(LockStep(t))

\* The token cell under contention: a call and a get_auth_token racing
\* with two tasks that set the token.
InitLock ==
    /\ config \in Configs({0}, {OneSecond}, {FALSE})
    /\ Constructed
    /\ overflow_checks = FALSE
    /\ InitClient
    /\ hr_in = NoInput
    /\ hr_out = None

NextLock ==
    \/ Start("c1", "GET", "Value", ProjectsPath, TRUE)
    \/ GrantRead("c1")
    \/ ReadToken("c1")
    \/ LoopHead("c1")
    \/ SendResponse("c1", Response(200, TextOk("{project}"), None, calls["c1"].url))
    \/ \E g \in Getters : GetRequest(g)
    \/ \E g \in Getters : GrantGet(g)
    \/ \E g \in Getters : GetToken(g)
    \/ \E s \in Setters, v \in {None} \cup {Some(t) : t \in Tokens} : SetRequest(s, v)
    \/ \E s \in Setters : GrantWrite(s)
    \/ \E s \in Setters : WriteToken(s)

SpecLock == InitLock /\ [][NextLock]_vars

\* One client, its clone and a service handle, created in any order among
\* sets of the token and calls.
NextHandles ==
    \/ \E from \in ClientHandles, h \in Handles : NewHandle(from, h)
    \/ \E h \in ClientHandles, v \in {None} \cup {Some(t) : t \in Tokens} :
           SetThrough(h, v)
    \/ \E h \in Handles : CallThrough(h)

SpecHandles == InitLock /\ [][NextHandles]_vars

\* The same call on two clients that differ in the debug flag only, both
\* meeting the same outcomes: the k-th send of either call ends as the
\* script says, with an error, a response, or a response that has no
\* request attached.
Outcomes ==
    {[kind |-> "error", error |-> "connection refused"]}
    \cup {[kind |-> k, response |-> Response(st, TextOk(t), None, ProjectsUrl)] :
             k \in {"response", "bare response"},
             st \in {200, 500}, t \in {"{project}", "{oops"}}

InitDebug ==
    /\ config \in Configs({0, 1, 2}, RetryDelays, {FALSE})
    /\ overflow_checks = FALSE
    /\ twin = TRUE
    /\ script \in [1..3 -> Outcomes]
    /\ draft = config
    /\ built = Some([via |-> "build", result |-> Build(config, TRUE)])
    /\ InitClient
    /\ hr_in = NoInput
    /\ hr_out = None

NextDebug ==
    \/ \E c \in Calls : Start(c, "GET", "Record", ProjectsPath, TRUE)
    \/ \E c \in Calls : GrantRead(c)
    \/ \E c \in Calls : ReadToken(c)
    \/ \E c \in Calls : LoopHead(c)
    \/ \E c \in Calls :
           /\ calls[c].pc = "sending"
           /\ script[calls[c].sends].kind = "error"
           /\ SendFail(c, script[calls[c].sends].error)
    \/ \E c \in Calls : Wake(c)
    \/ \E c \in Calls :
           /\ calls[c].pc = "sending"
           /\ script[calls[c].sends].kind = "response"
           /\ SendResponse(c, script[calls[c].sends].response)
    \/ \E c \in Calls :
           /\ calls[c].pc = "sending"
           /\ script[calls[c].sends].kind = "bare response"
           /\ SendResponseNoRequest(c, script[calls[c].sends].response)

SpecDebug == InitDebug /\ [][NextDebug]_vars

\* Construction from scratch, then two calls on the client if there is one.
BaseUrlChoices ==
    {<<"https://", "localhost", "/", "api", "/">>,
     <<"https://", "staging.xrpl.sale", "/", "v2">>,
     <<"not a url">>}
PathChoices == {<<"/", "projects">>, <<"projects">>, <<"/", "/", "projects">>}

InitBuild ==
    /\ twin = FALSE
    /\ script = <<>>
    /\ config = DefaultConfig
    /\ draft = DefaultConfig
    /\ built = None
    /\ overflow_checks = FALSE
    /\ InitClient
    /\ hr_in = NoInput
    /\ hr_out = None

NextBuild ==
    \/ \E k \in {"", "key"} : Configure("api_key", k)
    \/ Configure("environment", "Testnet")
    \/ \E u \in BaseUrlChoices : Configure("base_url", Some(u))
    \/ Configure("max_retries", 0)
    \/ Configure("debug", TRUE)
    \/ \E via \in {"build", "with_config"}, http_ok \in BOOLEAN :
           Construct(via, http_ok)
    \/ \E c \in Calls, path \in PathChoices :
           ClientBuilt /\ Start(c, "GET", "Value", path, TRUE)
    \/ \E c \in Calls : GrantRead(c)
    \/ \E c \in Calls : ReadToken(c)
    \/ \E c \in Calls : LoopHead(c)
    \/ \E c \in Calls :
           SendResponse(c, Response(200, TextOk("{project}"), None, calls[c].url))

SpecBuild == InitBuild /\ [][NextBuild]_vars

\* One stream_all stream consumed to its end, for every result the
\* listing requests can have.
NextStream ==
    \/ \E status \in {None, Some("active")} : StreamAll(status)
    \/ PollNext
    \/ \E result \in ListResults : ListReturns(result)
    \/ YieldItem

SpecStream == InitLock /\ [][NextStream]_vars

\* The results in which a field may be missing: data absent or three
\* projects, pagination absent, "1 of 2" or "2 of 2"; and an error.
SparseResults ==
    {Ok([data |-> d, pagination |-> p]) :
        d \in {None, Some(<<"a", "b", "c">>)},
        p \in {None, Some([page |-> 1, total_pages |-> 2]),
                     Some([page |-> 2, total_pages |-> 2])}}
    \cup {Err(NotFound("no such resource"))}

\* A stream_all stream among calls of featured and trending, the server
\* leaving fields out.
NextListing ==
    \/ StreamAll(None)
    \/ PollNext
    \/ \E result \in SparseResults : ListReturns(result)
    \/ YieldItem
    \/ \E op \in {"featured", "trending"}, period \in {None, Some("24h")},
          limit \in {None, Some(10)}, result \in SparseResults :
           CallListing(op, period, limit, result)

SpecListing == InitLock /\ [][NextListing]_vars

\* handle_response applied to every response and expected type.
InitClassify ==
    /\ config \in Configs({DefaultMaxRetries}, {OneSecond}, {FALSE})
    /\ Constructed
    /\ overflow_checks = FALSE
    /\ InitClient
    /\ hr_in \in [response : AllResponses(ProjectsUrl), T : ResultTypes,
                   request_url : {ProjectsUrl}]
    /\ hr_out = None

NextClassify == Classify

SpecClassify == InitClassify /\ [][NextClassify]_vars

(***************************************************************************)
(* Properties of the retry loop (checked under Spec).                      *)
(***************************************************************************)
Returned(c) == calls[c].pc = "done" /\ calls[c].result.some
Outcome(c) == calls[c].result.val

\* The call's last send received a 2xx response whose body was read and
\* decodes as the expected type.
GotDecodable(c) ==
    /\ calls[c].got.some
    /\ IsSuccess(calls[c].got.val.status)
    /\ calls[c].got.val.text.read
    /\ calls[c].got.val.text.value # ""
    /\ FromStr(calls[c].got.val.text.value, calls[c].T).ok

C2_AttemptBound ==
    \A c \in Calls :
        /\ calls[c].sends <= config.max_retries + 1
        /\ (Returned(c) /\ calls[c].sends >= 1 /\ calls[c].fails = calls[c].sends)
              => calls[c].sends = config.max_retries + 1

\* C2 witness: max_retries = 0, one failed send, and the call has returned.
C2_Witness ==
    /\ config.max_retries = 0
    /\ Returned("c1")
    /\ calls["c1"].sends = 1
    /\ calls["c1"].fails = 1

\* All max_retries + 1 sends of the call were made and failed.
Exhausted(c) ==
    /\ Returned(c)
    /\ calls[c].sends = config.max_retries + 1
    /\ calls[c].fails = calls[c].sends

\* C3: when all max_retries + 1 sends failed at transport level, the error
\* returned is the transport error of the last send.
C3_LastTransportError ==
    \A c \in Calls :
        Exhausted(c) => Outcome(c) = Err(HttpClient(calls[c].last_fail))

\* C3 witness: retries exhausted under the default policy, the last send
\* failing by a timeout.
C3_Witness ==
    /\ Exhausted("c1")
    /\ config.max_retries = DefaultMaxRetries
    /\ calls["c1"].last_fail = "operation timed out"

ResultKind(res) == IF res.ok THEN "success" ELSE res.error.kind
StatusKinds == {"BadRequest", "Unauthorized", "NotFound", "RateLimit", "Api"}

C5_DelayIsExactPower ==
    \A c \in Calls :
        calls[c].pc = "backoff" =>
            calls[c].delay = BigMul(config.retry_delay, BigPow2(calls[c].attempt))

\* C6: sends and backoff delays of a call alternate.  At most one send is
\* in flight; a send starts only after every earlier send failed and was
\* followed by one elapsed delay (so none precedes the first); a delay
\* follows a failed send only while retries are left; and after the last
\* of max_retries + 1 failed sends the call returns without a delay.
C6_SendsAndDelaysAlternate ==
    \A c \in Calls :
        /\ calls[c].inflight = (IF calls[c].pc = "sending" THEN 1 ELSE 0)
        /\ calls[c].pc = "sending" =>
              /\ calls[c].fails = calls[c].sends - 1
              /\ calls[c].sleeps = calls[c].sends - 1
        /\ calls[c].pc = "backoff" =>
              /\ calls[c].fails = calls[c].sends
              /\ calls[c].sleeps = calls[c].sends - 1
              /\ calls[c].sends <= config.max_retries
        /\ Exhausted(c) => calls[c].sleeps = config.max_retries

\* C6 witness: the default policy exhausted, three delays between four sends.
C6_Witness ==
    /\ Exhausted("c1")
    /\ config.max_retries = DefaultMaxRetries
    /\ calls["c1"].sends = DefaultMaxRetries + 1
    /\ calls["c1"].sleeps = DefaultMaxRetries

(***************************************************************************)
(* Properties of handle_response (checked under SpecClassify).             *)
(***************************************************************************)
Classified == hr_out.some
InStatus == hr_in.response.status
\* The body text of the response, empty when it could not be read.
InText == IF hr_in.response.text.read THEN hr_in.response.text.value ELSE ""

RECURSIVE DecimalValue(_)
\* The number a string of decimal digits denotes.
DecimalValue(ds) ==
    IF ds = <<>> THEN 0
    ELSE DigitValue(ds[1]) * 10 ^ (Len(ds) - 1) + DecimalValue(Tail(ds))

IsDecimal(h) == h # <<>> /\ \A i \in 1..Len(h) : h[i] \in Digits
\* A decimal integer with a sign in front.
IsSigned(h) == h # <<>> /\ h[1] \in {"+", "-"} /\ IsDecimal(Tail(h))

\* C8: the RateLimit error of a 429 carries the body text of the response
\* and, from the retry-after header of that response, n when the value is
\* the decimal integer n, and nothing when the header is missing or its
\* value is not a number.
C8_RetryAfter ==
    (Classified /\ InStatus = 429) =>
        LET h == hr_in.response.retry_after
            e == hr_out.val.error
        IN  /\ ~hr_out.val.ok
            /\ e.kind = "RateLimit"
            /\ e.message = InText
            /\ ~h.some => e.retry_after = None
            /\ (h.some /\ IsDecimal(h.val)) =>
                  e.retry_after = Some(DecimalValue(h.val))
            /\ (h.some /\ ~IsDecimal(h.val) /\ ~IsSigned(h.val)) =>
                  e.retry_after = None

\* C8 witness: retry-after: 120 on a 429 gives a retry_after of 120.
C8_Witness ==
    /\ Classified
    /\ InStatus = 429
    /\ hr_in.response.retry_after = Some(Hdr120)
    /\ hr_out.val = Err(RateLimit("rate limited", Some(120)))

(***************************************************************************)
(* Properties of whole calls (Spec) and of the credential (SpecAuth).      *)
(***************************************************************************)
\* C9 as stated: for every verb and expected type, a 2xx response with an
\* empty body yields a success carrying the 'no value' of the type.
C9_EmptyBodyIsNoValue ==
    \A c \in Calls :
        (/\ calls[c].got.some
         /\ IsSuccess(calls[c].got.val.status)
         /\ calls[c].got.val.text = TextOk(""))
            => (Returned(c) /\ Outcome(c) = Ok(NoValue(calls[c].T)))

\* The call has read the token and chosen its credential.
Authenticated(c) == calls[c].pc \in {"attempt", "sending", "backoff", "panicked"}
                    \/ (calls[c].pc = "done" /\ calls[c].headers # {})

\* C10: every call attaches exactly one credential, a bearer token or the
\* X-API-Key header with the configured key, never both; a call that
\* starts after every set_auth_token so far has completed (and reads the
\* token before another begins) attaches the bearer token of the last set
\* if it stored one, and otherwise (the token never set, or cleared last)
\* the X-API-Key header; and every send of the call carries that credential.
C10_CredentialFollowsLastSet ==
    \A c \in Calls :
        Authenticated(c) =>
            /\ Cardinality(calls[c].headers) = 1
            /\ calls[c].headers \in
                  {{ApiKey(config.api_key)}} \cup {{Bearer(t)} : t \in Tokens}
            /\ calls[c].sent \subseteq {calls[c].headers}
            /\ calls[c].undisturbed =>
                  calls[c].headers =
                      (IF calls[c].start_set.some
                       THEN {Bearer(calls[c].start_set.val)}
                       ELSE {ApiKey(config.api_key)})

\* C10 witness: one call was sent with a bearer token, and a call started
\* after the token was cleared is sent with the API key.
C10_Witness ==
    /\ calls["c1"].sent = {{Bearer("t1")}}
    /\ calls["c2"].undisturbed
    /\ ~calls["c2"].start_set.some
    /\ calls["c2"].sent = {{ApiKey(config.api_key)}}

(***************************************************************************)
(* Properties of the token cell under contention (checked under SpecLock). *)
(***************************************************************************)
\* The values read so far: by get_auth_token and by the calls.
ValuesRead ==
    {getters[g].result.val : g \in {x \in Getters : getters[x].result.some}}
    \cup {calls[c].token_read.val : c \in {x \in Calls : calls[x].token_read.some}}

\* C11: under every interleaving of set_auth_token, get_auth_token and the
\* reads of the calls, every value read is the initial absent token or the
\* argument of a set_auth_token completed before the read, never a mix;
\* and while a write guard is out there is no read guard and no second
\* write guard.
C11_ReadsSeeCompletedWrites ==
    /\ ValuesRead \subseteq {None} \cup written
    /\ Mixed \notin ValuesRead
    /\ Cardinality(rw_writer) <= 1
    /\ rw_writer # {} => rw_readers = {}

\* C11 witness: get_auth_token has returned the token of a completed set,
\* a call holds the read guard, and a second set waits for it at the head
\* of the queue after both setters have written.
C11_Witness ==
    /\ getters["g1"].result = Some(Some("t1"))
    /\ calls["c1"].pc = "auth_read"
    /\ rw_readers = {"c1"}
    /\ AtHead("s2")
    /\ setters["s1"].n > 0
    /\ setters["s2"].n > 0

(***************************************************************************)
(* Properties of clones and service handles (checked under SpecHandles).   *)
(***************************************************************************)
\* C12: the token is one cell per client, shared by every request path: a
\* call through the client, a clone or a service handle, whenever the
\* handle was created, carries the credential of the last token set (or
\* cleared) through any client value before the call.
C12_OneCellForEveryHandle ==
    \A h \in Handles :
        /\ handles[h] # 0 => cells[handles[h]] = last_set
        /\ \A u \in used[h] : u.headers = AuthHeaders(u.after, config)

\* C12 witness: the service handle made a call with the API key before any
\* token was set, t1 was then set through the clone, and calls through the
\* service handle and through the client carried t1.
C12_Witness ==
    /\ written = {Some("t1")}
    /\ [headers |-> {ApiKey(config.api_key)}, after |-> None] \in used["projects"]
    /\ [headers |-> {Bearer("t1")}, after |-> Some("t1")] \in used["projects"]
    /\ [headers |-> {Bearer("t1")}, after |-> Some("t1")] \in used["client"]
    /\ used["clone"] = {}
    /\ handles["clone"] # 0

(***************************************************************************)
(* Properties of stream_all (checked under SpecStream).                    *)
(***************************************************************************)
\* What the stream has yielded or holds ready to yield.
Delivered == stream.yielded \o stream.buffer

\* A fetched page that reports page < total_pages, page = total_pages.
ReportsMore(r) ==
    /\ r.ok
    /\ r.value.pagination.some
    /\ r.value.pagination.val.page < r.value.pagination.val.total_pages
ReportsLast(r) ==
    /\ r.ok
    /\ r.value.pagination.some
    /\ r.value.pagination.val.page = r.value.pagination.val.total_pages

\* The projects of the pages fetched with success, in page order.
RECURSIVE PagesItems(_)
PagesItems(f) ==
    IF f = <<>> THEN <<>>
    ELSE (IF Head(f).ok /\ Head(f).value.data.some
          THEN Head(f).value.data.val ELSE <<>>) \o PagesItems(Tail(f))

SuccessItem(x) == [ok |-> TRUE, value |-> x]
ErrorItem(e) == [ok |-> FALSE, error |-> e]
SuccessItems(xs) == [i \in 1..Len(xs) |-> SuccessItem(xs[i])]
IsErrorItem(item) == ~item.ok

\* C13: for every N >= 1, when the responses for pages 1..N-1 report
\* page < total_pages and the response for page N reports them equal,
\* the stream makes exactly N listing calls, for pages 1, 2, ..., N in
\* that order, holds no error item, and is done: the next poll ends it.
C13_ExactlyNCalls ==
    /\ stream.requested = [i \in 1..Len(stream.requested) |-> i]
    /\ \A N \in 1..Len(stream.fetched) :
          (/\ \A i \in 1..(N - 1) : ReportsMore(stream.fetched[i])
           /\ ReportsLast(stream.fetched[N]))
              => /\ Len(stream.fetched) = N
                 /\ stream.requested = [i \in 1..N |-> i]
                 /\ stream.pc \in {"ready", "ended"}
                 /\ stream.done
                 /\ \A i \in 1..Len(Delivered) : ~IsErrorItem(Delivered[i])

\* C13 witness: three pages, "1 of 3", "2 of 3" and "3 of 3", were
\* requested in order and the stream has ended.
C13_Witness ==
    /\ stream.pc = "ended"
    /\ stream.requested = <<1, 2, 3>>
    /\ \A i \in 1..3 :
          /\ stream.fetched[i].ok
          /\ stream.fetched[i].value.pagination =
                 Some([page |-> i, total_pages |-> 3])
    /\ Len(stream.yielded) = 3 + 3

\* C14: when the listing call for page k fails, the stream delivers the
\* items of pages 1..k-1, then one error item carrying the error of that
\* call, and is done: no listing call follows the failure.  In every run
\* an error item is the last item of the stream.
C14_OneTerminalError ==
    /\ \A i \in 1..Len(Delivered) : IsErrorItem(Delivered[i]) => i = Len(Delivered)
    /\ \A k \in 1..Len(stream.fetched) :
          ~stream.fetched[k].ok
              => /\ Len(stream.fetched) = k
                 /\ Len(stream.requested) = k
                 /\ stream.pc \in {"ready", "ended"}
                 /\ stream.done
                 /\ Delivered =
                       SuccessItems(PagesItems(SubSeq(stream.fetched, 1, k - 1)))
                       \o <<ErrorItem(stream.fetched[k].error)>>

\* C14 witness: page 1 gave three projects, the call for page 2 failed,
\* and the stream ended after the three projects and the error.
C14_Witness ==
    /\ stream.pc = "ended"
    /\ stream.requested = <<1, 2>>
    /\ stream.fetched[2] = Err(NotFound("no such resource"))
    /\ stream.yielded =
          <<SuccessItem("a"), SuccessItem("b"), SuccessItem("c"),
            ErrorItem(NotFound("no such resource"))>>

\* C15: the success items of the stream are the data of the pages fetched
\* with success, concatenated in page order and each in the order the
\* server gave: nothing dropped, duplicated or reordered; and all of them
\* have been yielded when the stream ends.
C15_ItemsInPageOrder ==
    /\ SelectSeq(Delivered, LAMBDA item : item.ok) =
           SuccessItems(PagesItems(stream.fetched))
    /\ stream.pc = "ended" => stream.buffer = <<>>

\* C15 witness: the single page "1 of 1" with three projects was yielded
\* whole and the stream ended.
C15_Witness ==
    /\ stream.pc = "ended"
    /\ stream.fetched =
          <<Ok([data |-> Some(<<"a", "b", "c">>),
                pagination |-> Some([page |-> 1, total_pages |-> 1])])>>
    /\ stream.yielded = <<SuccessItem("a"), SuccessItem("b"), SuccessItem("c")>>

(***************************************************************************)
(* Properties of missing fields (checked under SpecListing).               *)
(***************************************************************************)
\* C16: a field missing from a listing response that was fetched with
\* success is no error.  A page without pagination delivers its data (if
\* any) and is the last call of the stream; a page without data delivers
\* nothing, and the stream goes on after it exactly when its pagination
\* reports page < total_pages; featured and trending return the empty list
\* for a response without data.
C16_MissingFieldsAreEmpty ==
    /\ \A k \in 1..Len(stream.fetched) :
          LET r == stream.fetched[k]
              before == SuccessItems(PagesItems(SubSeq(stream.fetched, 1, k - 1)))
              upto == SuccessItems(PagesItems(SubSeq(stream.fetched, 1, k)))
          IN  r.ok =>
                /\ ~r.value.pagination.some
                      => /\ Len(stream.fetched) = k
                         /\ Len(stream.requested) = k
                         /\ stream.done
                         /\ Delivered = upto
                /\ ~r.value.data.some
                      => /\ upto = before
                         /\ k < Len(stream.requested) => ReportsMore(r)
                         /\ k = Len(stream.fetched) => stream.done = ~ReportsMore(r)
                         /\ k = Len(stream.fetched) => Delivered = before
    /\ listing.some /\ listing.val.result.ok /\ ~listing.val.result.value.data.some
          => listing.val.returned = SuccessItem(<<>>)

\* C16 witness: the stream fetched a page without data that reported
\* "1 of 2", then a page of three projects without pagination, and ended
\* after those three; and trending returned the empty list for a response
\* without data.
C16_Witness ==
    /\ stream.pc = "ended"
    /\ stream.fetched =
          <<Ok([data |-> None, pagination |-> Some([page |-> 1, total_pages |-> 2])]),
            Ok([data |-> Some(<<"a", "b", "c">>), pagination |-> None])>>
    /\ stream.yielded = <<SuccessItem("a"), SuccessItem("b"), SuccessItem("c")>>
    /\ listing.some
    /\ listing.val.op = "trending"
    /\ listing.val.result.ok
    /\ ~listing.val.result.value.data.some
    /\ listing.val.returned = SuccessItem(<<>>)

(***************************************************************************)
(* Properties of construction (checked under SpecBuild).                   *)
(***************************************************************************)
\* The X-API-Key values of the requests sent so far.
KeysSent ==
    {h.value : h \in {x \in UNION (UNION {calls[c].sent : c \in Calls}) :
                          x.name = "X-API-Key"}}

\* C17: whenever build is called on a builder whose API key is empty,
\* whatever its other settings, it returns a Configuration error, there is
\* no client, and nothing is sent.
C17_EmptyKeyFailsBuild ==
    (built.some /\ built.val.via = "build" /\ draft.api_key = "")
        => /\ ~built.val.result.ok
           /\ built.val.result.error.kind = "Configuration"
           /\ ~ClientBuilt
           /\ \A c \in Calls : calls[c].pc = "idle" /\ calls[c].sends = 0

\* C17 witness: build was called with the key set back to the empty
\* string and other settings changed.
C17_Witness ==
    /\ built.some
    /\ built.val.via = "build"
    /\ draft.api_key = ""
    /\ draft.environment = "Testnet"
    /\ draft.base_url.some
    /\ draft.debug

\* C18: every client obtained from ClientBuilder::build or
\* Client::with_config has a non-empty api_key, and no request carries an
\* empty X-API-Key value.
C18_KeyNeverEmpty ==
    /\ ClientBuilt => config.api_key # ""
    /\ <<"">> \notin KeysSent

(***************************************************************************)
(* Properties of the request URL (checked under SpecBuild).                *)
(***************************************************************************)
\* The call has resolved its URL, or failed to.
Resolved(c) == calls[c].pc # "idle"

\* The base the client was constructed with: the override, or the default
\* of the environment.
ChosenBase ==
    LET cfg == built.val.result.value
    IN  IF cfg.base_url.some THEN cfg.base_url.val
        ELSE CASE cfg.environment = "Production"
                    -> <<"https://", "api.xrpl.sale", "/", "v1">>
               [] cfg.environment = "Testnet"
                    -> <<"https://", "api-testnet.xrpl.sale", "/", "v1">>

\* The path segments of a base text, and a path less one leading slash.
BaseSegments(text) == SelectSeq(SubSeq(text, 3, Len(text)), LAMBDA t : t # "/")
LessOneSlash(path) == IF path # <<>> /\ Head(path) = "/" THEN Tail(path) ELSE path

\* C19: the URL of a request is the base followed by the path, joined by
\* one slash: the host of the base, every segment of the base path, then
\* the segments of the path with one leading slash removed.
C19_BaseThenPath ==
    \A c \in Calls :
        (Resolved(c) /\ ParseUrl(ChosenBase).ok)
            => calls[c].url =
                  [host |-> ChosenBase[2],
                   path |-> BaseSegments(ChosenBase)
                            \o SplitSegments(<<"/">> \o LessOneSlash(calls[c].path))]

\* C20: every call of a client resolves its URL against the override the
\* client was constructed with, or else against the default of its
\* environment; a base that is no URL fails every call; and the
\* configuration of the client is the one it was constructed with.
C20_BaseFixedAtConstruction ==
    ClientBuilt =>
        /\ config = built.val.result.value
        /\ \A c \in Calls :
              Resolved(c) =>
                  IF ParseUrl(ChosenBase).ok
                  THEN calls[c].url =
                          UrlJoin(ParseUrl(ChosenBase).value,
                                  TrimStartMatches(calls[c].path))
                  ELSE /\ Returned(c)
                       /\ Outcome(c) = Err(Configuration("Invalid base URL"))

\* C20 witness: a client with Testnet selected and an override sent two
\* calls for different paths to the host of the override.
C20_Witness ==
    /\ ClientBuilt
    /\ config.environment = "Testnet"
    /\ config.base_url = Some(<<"https://", "staging.xrpl.sale", "/", "v2">>)
    /\ calls["c1"].path # calls["c2"].path
    /\ \A c \in Calls :
          /\ calls[c].sends = 1
          /\ calls[c].url.host = "staging.xrpl.sale"

(***************************************************************************)
(* Properties of the debug flag and of panics (checked under SpecDebug).   *)
(***************************************************************************)
\* A call has ended: it returned or it panicked.
Ended(c) == calls[c].pc \in {"done", "panicked"}

\* Everything a call did and returned, the trace lines left out.
Behaviour(c) == [calls[c] EXCEPT !.logs = 0]

\* The two runs are at the same point: both over, or at the same place
\* after as many sends and delays.
SamePoint ==
    \/ Ended("c1") /\ Ended("c2")
    \/ /\ calls["c1"].pc = calls["c2"].pc
       /\ calls["c1"].sends = calls["c2"].sends
       /\ calls["c1"].sleeps = calls["c2"].sleeps

\* C21: two runs of the same call against the same transport outcomes and
\* responses, on configurations that differ in the debug flag only, make
\* the same attempts and delays and end with the same success or the same
\* error.
C21_DebugChangesNothing ==
    SamePoint => Behaviour("c1") = Behaviour("c2")

\* C22: no state of the request pipeline is a panic: whatever the retry
\* policy, the debug flag, the transport outcomes and the responses, a
\* call is on its way or has returned a value or an error.
C22_NoPanicState ==
    \A c \in Calls : calls[c].pc # "panicked" /\ calls[c].panic = ""

(***************************************************************************)
(* The credential across the attempts of a call (checked under SpecAuth).  *)
(***************************************************************************)
\* The credential that goes with a token.
CredentialFor(token) ==
    IF token.some
    THEN {[name |-> "Authorization", value |-> <<"Bearer", token.val>>]}
    ELSE {[name |-> "X-API-Key", value |-> <<config.api_key>>]}

\* Every attempt of a call carries the credential of the one token the
\* call read before its first attempt.
ChosenOnce(c) ==
    /\ calls[c].token_read.some
    /\ calls[c].headers = CredentialFor(calls[c].token_read.val)
    /\ calls[c].sent \subseteq {CredentialFor(calls[c].token_read.val)}

\* C23 as stated: the credential is chosen once, and the token of a set
\* is used only by calls that start after the set has completed: a call
\* carries the token of the last set completed before it started.
C23_ChosenOnceAsStated ==
    \A c \in Calls :
        Authenticated(c) =>
            /\ ChosenOnce(c)
            /\ calls[c].token_read.val = calls[c].start_set

\* C23: the credential of a call is chosen once, before its first attempt:
\* the first send and every retry carry the credential of the token the
\* call read, whatever is set during its sends and delays.  A token is
\* used only by calls that read the token after its set: that is every
\* call started after the set completed, and possibly a call started
\* while the set was in progress.
C23_ChosenOnce ==
    \A c \in Calls :
        Authenticated(c) =>
            /\ ChosenOnce(c)
            /\ calls[c].undisturbed => calls[c].token_read.val = calls[c].start_set
            /\ calls[c].token_read.val \in {None} \cup written

\* C23 witness: c1 is in its second send with the API key while t1, set
\* after its first send, is the token; c2, started since, was sent with t1.
C23_Witness ==
    /\ calls["c1"].pc = "sending"
    /\ calls["c1"].sends = 2
    /\ calls["c1"].sent = {CredentialFor(None)}
    /\ auth_token = Some("t1")
    /\ calls["c2"].start_set = Some("t1")
    /\ calls["c2"].sent = {CredentialFor(Some("t1"))}

(***************************************************************************)
(* Progress of set_auth_token (checked under FairSpecHold).                *)
(***************************************************************************)
\* The lock is in use: a guard is out or a task waits for one.
LockBusy == rw_readers # {} \/ rw_writer # {} \/ rw_queue # <<>>

\* C24: a call holds the read guard only while it loads the token, never
\* in an attempt, a send or a backoff delay; whenever the lock is in use
\* one of its steps can be taken, so nothing deadlocks; and with the steps
\* of the lock scheduled fairly every set_auth_token that was begun
\* completes, whatever the calls in flight do.
C24_SetAlwaysCompletes ==
    /\ [](\A c \in Calls : c \in rw_readers => calls[c].pc = "auth_read")
    /\ [](LockBusy => \E t \in Calls \cup {"s1"} : ENABLED LockStep(t))
    /\ (setters["s1"].pc # "idle") ~> (setters["s1"].pc = "idle")

\* C24 witness: the setter holds the write guard while one call is in a
\* backoff delay and the other is waiting for its response.
C24_Witness ==
    /\ setters["s1"].pc = "writing"
    /\ calls["c1"].pc = "backoff"
    /\ calls["c2"].pc = "sending"
    /\ calls["c2"].sends = 2

(***************************************************************************)
(* When a stream of successful pages ends (checked under SpecStream).      *)
(***************************************************************************)
\* A fetched page that lacks pagination or reports page >= total_pages.
ReportsEnd(r) ==
    \/ ~r.value.pagination.some
    \/ r.value.pagination.val.page >= r.value.pagination.val.total_pages

\* C25: in a stream whose listing calls all succeed, the calls ask for the
\* pages 1, 2, 3, ... with limit 50 and the status filter of the stream; a
\* call follows a response only if that response had pagination and
\* reported page < total_pages, whatever page was asked for; and after a
\* response the stream is done exactly when the response lacks pagination
\* or reports page >= total_pages, so it ends if and only if there is such
\* a response.
C25_EndsOnReportedLastPage ==
    (\A i \in 1..Len(stream.fetched) : stream.fetched[i].ok) =>
        /\ stream.queries =
              [i \in 1..Len(stream.queries) |->
                  [status |-> stream.status, page |-> Some(DecimalString(i)),
                   limit |-> Some(<<"5", "0">>), sort_by |-> None,
                   sort_order |-> None]]
        /\ \A i \in 1..(Len(stream.queries) - 1) : ~ReportsEnd(stream.fetched[i])
        /\ (stream.pc \in {"ready", "ended"} /\ stream.fetched # <<>>)
              => (stream.done <=> ReportsEnd(stream.fetched[Len(stream.fetched)]))
        /\ stream.pc = "ended"
              => \E i \in 1..Len(stream.fetched) : ReportsEnd(stream.fetched[i])
        /\ (stream.pc = "ready" /\ stream.buffer = <<>> /\ stream.page <= MaxPages)
              => ENABLED PollNext

\* C25 witness: with the filter "active", the responses to pages 1 and 2
\* both reported "1 of 2", page 3 was asked for and came without
\* pagination, and the stream ended.
C25_Witness ==
    /\ stream.pc = "ended"
    /\ stream.status = Some("active")
    /\ Len(stream.queries) = 3
    /\ stream.fetched[2].ok
    /\ stream.fetched[2].value.pagination = Some([page |-> 1, total_pages |-> 2])
    /\ stream.fetched[3].ok
    /\ ~stream.fetched[3].value.pagination.some

====
